---- MODULE Spec2Model ----
(***************************************************************************)
(* Line-editing engine of the Mindustry logic editor                       *)
(* (src/base_editor.py, src/mindustry_editor.py).                          *)
(*                                                                         *)
(* The document is the flat character stream of a QTextDocument: a         *)
(* sequence of one-character strings in which PS (U+2029, the paragraph    *)
(* separator) ends a block (line).  Cursor positions are offsets 0..Len.   *)
(* A handler works on a copy of the editor's cursor (self.textCursor());   *)
(* edits made through the copy shift the editor's own cursor, and          *)
(* setTextCursor replaces it.  Lines are assumed not to be soft-wrapped,   *)
(* so a visual line is a block.                                            *)
(***************************************************************************)
EXTENDS Integers, Sequences, FiniteSets, TLC

VARIABLES doc, anchor, position, oor, op, pdoc, panchor, pposition, edit,
          text_block, user_data, search_expr, replace_expr, replace_count, pc,
          tabs, current, last_close, last_save

vars == <<doc, anchor, position, oor, op, pdoc, panchor, pposition, edit,
          text_block, user_data, search_expr, replace_expr, replace_count, pc,
          tabs, current, last_close, last_save>>

\* the current editor: its document and cursor, the last handler run on it
\* and its line number area
editor_vars ==
    <<doc, anchor, position, oor, op, pdoc, panchor, pposition, edit, text_block, user_data>>

\* the main window: the editors of the tab widget (path and modified flag
\* of each), the current index, and what the last handler closed and saved
window_vars == <<tabs, current, last_close, last_save>>

\* the state of a replace_all call: its arguments, its counter and whether
\* its loop is running
replace_vars == <<search_expr, replace_expr, replace_count, pc>>

\* ------------------------------------------------------------------ bounds
\* most lines of an initial document
MaxLines == 3
\* most characters (separators included) of an initial document
MaxInitLen == 6
\* the longest document a sequence of operations may grow to
MaxDocLen == 8

\* -------------------------------------------------------------- characters
PS == "|"
LF == "\n"
HASH == "#"
SPACE == " "

Min(x, y) == IF x <= y THEN x ELSE y
Max(x, y) == IF x >= y THEN x ELSE y

\* ------------------------------------------------- QTextDocument / QTextBlock
\* document.findBlock(pos).position()
BlockStart(d, pos) ==
    CHOOSE s \in 0..pos : /\ (s = 0 \/ d[s] = PS)
                          /\ \A i \in (s + 1)..pos : d[i] # PS

\* position right before the block separator of the block holding pos
BlockEnd(d, pos) ==
    CHOOSE e \in pos..Len(d) : /\ (e = Len(d) \/ d[e + 1] = PS)
                               /\ \A i \in (pos + 1)..e : d[i] # PS

\* QTextBlock.blockNumber()
BlockNumber(d, pos) == Cardinality({i \in 1..pos : d[i] = PS})

\* QTextDocument.blockCount()
BlockCount(d) == BlockNumber(d, Len(d)) + 1

\* QTextBlock.text()
BlockText(d, pos) == SubSeq(d, BlockStart(d, pos) + 1, BlockEnd(d, pos))

\* QTextBlock.previous().isValid() / QTextBlock.next().isValid()
HasPrevious(d, pos) == BlockStart(d, pos) > 0
HasNext(d, pos) == BlockEnd(d, pos) < Len(d)

\* str.startswith
StartsWith(t, pre) == Len(t) >= Len(pre) /\ SubSeq(t, 1, Len(pre)) = pre

\* the lines of a document, as the sequence of block texts
RECURSIVE LinesFrom(_, _)
LinesFrom(d, pos) ==
    IF HasNext(d, pos)
    THEN <<BlockText(d, pos)>> \o LinesFrom(d, BlockEnd(d, pos) + 1)
    ELSE <<BlockText(d, pos)>>

Lines(d) == LinesFrom(d, 0)

\* ------------------------------------------------------------- QTextCursor
\* self.textCursor(): a copy (a, p) of the editor's cursor (ea, ep)
\* depth, begun, dirty, loose and undo keep the books of the document's edit
\* groups while the handler runs: open groups, beginEditBlock calls, whether
\* the open group changed the document, changes made outside any group, and
\* steps put on the undo stack
textCursor(d, a, p) ==
    [d |-> d, a |-> a, p |-> p, ea |-> a, ep |-> p, oor |-> FALSE,
     depth |-> 0, begun |-> 0, dirty |-> FALSE, loose |-> 0, undo |-> 0]

\* QTextCursor.beginEditBlock
beginEditBlock(c) == [c EXCEPT !.depth = @ + 1, !.begun = @ + 1]

\* QTextCursor.endEditBlock: closing the outermost group puts its changes on
\* the undo stack as one step
endEditBlock(c) ==
    IF c.depth = 0 THEN c
    ELSE [c EXCEPT !.depth = @ - 1,
                   !.dirty = IF c.depth = 1 THEN FALSE ELSE @,
                   !.undo = IF c.depth = 1 /\ c.dirty THEN @ + 1 ELSE @]

\* one change of the document: a step of its own outside a group, part of
\* the group's step inside one
edited(c) ==
    IF c.depth = 0
    THEN [c EXCEPT !.loose = @ + 1, !.undo = @ + 1]
    ELSE [c EXCEPT !.dirty = TRUE]

\* self.setTextCursor(text_cursor)
setTextCursor(c) == [c EXCEPT !.ea = c.a, !.ep = c.p]

selectionStart(c) == Min(c.a, c.p)
selectionEnd(c) == Max(c.a, c.p)
hasSelection(c) == c.a # c.p
selectedText(c) == SubSeq(c.d, selectionStart(c) + 1, selectionEnd(c))
positionInBlock(c) == c.p - BlockStart(c.d, c.p)

\* QTextCursor.setPosition: a position outside the document is refused
\* (Qt warns and leaves the cursor where it is)
setPosition(c, pos, keep) ==
    IF pos < 0 \/ pos > Len(c.d)
    THEN [c EXCEPT !.oor = TRUE]
    ELSE [c EXCEPT !.p = pos, !.a = IF keep THEN @ ELSE pos]

\* movePosition(StartOfBlock | StartOfLine)
StartOfBlock(c, keep) == setPosition(c, BlockStart(c.d, c.p), keep)

\* movePosition(EndOfBlock | EndOfLine)
EndOfBlock(c, keep) == setPosition(c, BlockEnd(c.d, c.p), keep)

\* movePosition(PreviousBlock): fails on the first block
PreviousBlock(c, keep) ==
    IF HasPrevious(c.d, c.p)
    THEN setPosition(c, BlockStart(c.d, BlockStart(c.d, c.p) - 1), keep)
    ELSE c

\* movePosition(NextBlock): fails on the last block
NextBlock(c, keep) ==
    IF HasNext(c.d, c.p)
    THEN setPosition(c, BlockEnd(c.d, c.p) + 1, keep)
    ELSE c

\* movePosition(Up) inside an edit block: the cursor's x is dirty, so the
\* cursor lands on the first column of the previous block
Up(c, keep) == PreviousBlock(c, keep)

\* movePosition(Down) inside an edit block: first column of the next block
Down(c, keep) == NextBlock(c, keep)

\* movePosition(NextCharacter, mode, n)
NextCharacter(c, keep, n) == setPosition(c, Min(c.p + n, Len(c.d)), keep)

\* how a change of `delta` characters at `at` shifts a cursor offset
\* (QTextCursorPrivate::adjustPosition)
Adjust(x, at, delta) ==
    IF x < at THEN x
    ELSE IF delta < 0 /\ x < at - delta THEN at
    ELSE x + delta

\* QTextCursor.removeSelectedText
removeSelectedText(c) ==
    LET s == selectionStart(c)
        e == selectionEnd(c)
    IN  IF s = e THEN c
        ELSE [edited(c) EXCEPT !.d = SubSeq(c.d, 1, s) \o SubSeq(c.d, e + 1, Len(c.d)),
                       !.a = s, !.p = s,
                       !.ea = Adjust(c.ea, s, s - e),
                       !.ep = Adjust(c.ep, s, s - e)]

\* insertText turns every line break of the text into a block separator
Blocks(t) == [i \in 1..Len(t) |-> IF t[i] = LF THEN PS ELSE t[i]]

\* QTextCursor.insertText: replaces the selection; removal and insertion
\* are one change
insertText(c, t) ==
    LET r == removeSelectedText(c)
        n == Len(t)
        e == edited(c)
    IN  [r EXCEPT !.d = SubSeq(r.d, 1, r.p) \o Blocks(t) \o SubSeq(r.d, r.p + 1, Len(r.d)),
                  !.a = r.p + n, !.p = r.p + n,
                  !.dirty = e.dirty, !.loose = e.loose, !.undo = e.undo,
                  !.ea = Adjust(r.ea, r.p, n),
                  !.ep = Adjust(r.ep, r.p, n)]

\* ------------------------------------------------------- enlarge_selection
\* mutant: a selection that ends at column 0 keeps that line
enlarge_selection_keep_end_line(c) ==
    LET selection_start == selectionStart(c)
        selection_end == selectionEnd(c)
    IN  IF selection_start = selection_end
        THEN EndOfBlock(StartOfBlock(c, FALSE), TRUE)
        ELSE LET c1 == StartOfBlock(setPosition(c, selection_start, FALSE), FALSE)
                 c2 == setPosition(c1, selection_end, TRUE)
             IN  EndOfBlock(c2, TRUE)

enlarge_selection(c) ==
    LET selection_start == selectionStart(c)
        selection_end == selectionEnd(c)
    IN  IF selection_start = selection_end
        THEN EndOfBlock(StartOfBlock(c, FALSE), TRUE)
        ELSE LET c1 == StartOfBlock(setPosition(c, selection_start, FALSE), FALSE)
                 c2 == setPosition(c1, selection_end, TRUE)
                 c3 == IF positionInBlock(c2) = 0 THEN PreviousBlock(c2, TRUE) ELSE c2
             IN  EndOfBlock(c3, TRUE)

\* the value enlarge_selection returns
enlarged_length(c) ==
    selectionEnd(enlarge_selection(c)) - selectionStart(enlarge_selection(c))

\* ------------------------------------------------------------ move_lines_up
\* f"{current_line.text()}\n{previous_line.text()}"
current_up_text(current_line, previous_line) ==
    current_line \o <<LF>> \o previous_line

\* mutant: the column is not restored
restore_column_skipped(c, position_in_block) == c

\* "return cursor to it's original relative position in the current line"
restore_column(c, position_in_block) ==
    setPosition(c, c.p + position_in_block - positionInBlock(c), FALSE)

move_current_line_up(c) ==
    LET current_line == BlockText(c.d, c.p)
        previous_line == BlockText(c.d, BlockStart(c.d, c.p) - 1)
        position_in_block == positionInBlock(c)
        c0 == beginEditBlock(c)
        c1 == EndOfBlock(c0, FALSE)
        c2 == Up(c1, TRUE)
        c3 == StartOfBlock(c2, TRUE)
        c4 == insertText(c3, current_up_text(current_line, previous_line))
        c5 == Up(c4, FALSE)
        c6 == restore_column(c5, position_in_block)
    IN  setTextCursor(endEditBlock(c6))

\* mutant: the two texts are put back in their old order
selected_up_text_unswapped(selection_text, previous_line) ==
    previous_line \o <<LF>> \o selection_text

\* f"{selection_text}\n{previous_line.text()}"
selected_up_text(selection_text, previous_line) ==
    selection_text \o <<LF>> \o previous_line

\* mutant: the selection end is counted from the line start
restore_selection_up_from_line_start(c, previous_line_start, relative_start, selection_length) ==
    LET c1 == setPosition(c, previous_line_start + relative_start, FALSE)
    IN  setPosition(c1, previous_line_start + selection_length, TRUE)

\* "return cursor to its position in the line & retore selection"
restore_selection_up(c, previous_line_start, relative_start, selection_length) ==
    LET c1 == setPosition(c, previous_line_start + relative_start, FALSE)
    IN  setPosition(c1, c1.p + selection_length, TRUE)

move_selected_lines_up(c) ==
    LET selection_start == selectionStart(c)
        selection_end == selectionEnd(c)
        selection_length == selection_end - selection_start
        c1 == setPosition(c, selection_end, FALSE)
        c2 == setPosition(c1, selection_start, TRUE)
        relative_start == positionInBlock(c2)
        c3 == enlarge_selection(c2)
        previous_valid == HasPrevious(c3.d, selectionStart(c3))
        previous_line_start == BlockStart(c3.d, BlockStart(c3.d, selectionStart(c3)) - 1)
        selection_text == selectedText(c3)
        c4 == removeSelectedText(beginEditBlock(c3))
        previous_line == BlockText(c4.d, previous_line_start)
        c5 == StartOfBlock(c4, FALSE)
        c6 == Up(c5, TRUE)
        c7 == insertText(c6, selected_up_text(selection_text, previous_line))
        c9 == restore_selection_up(c7, previous_line_start, relative_start, selection_length)
    IN  IF ~previous_valid THEN c ELSE setTextCursor(endEditBlock(c9))

move_lines_up(d, a, p) ==
    LET text_cursor == textCursor(d, a, p)
    IN  IF ~HasPrevious(d, p) THEN text_cursor
        ELSE IF hasSelection(text_cursor) THEN move_selected_lines_up(text_cursor)
        ELSE move_current_line_up(text_cursor)

\* ---------------------------------------------------------- move_lines_down
\* f"{next_line.text()}\n{current_line.text()}"
current_down_text(next_line, current_line) ==
    next_line \o <<LF>> \o current_line

\* mutant: the exchange is made outside any edit group
move_current_line_down_ungrouped(c) ==
    LET current_line == BlockText(c.d, c.p)
        next_line == BlockText(c.d, BlockEnd(c.d, c.p) + 1)
        position_in_block == positionInBlock(c)
        c1 == StartOfBlock(c, FALSE)
        c2 == Down(c1, TRUE)
        c3 == EndOfBlock(c2, TRUE)
        c4 == insertText(c3, current_down_text(next_line, current_line))
        c5 == restore_column(c4, position_in_block)
    IN  setTextCursor(c5)

move_current_line_down(c) ==
    LET current_line == BlockText(c.d, c.p)
        next_line == BlockText(c.d, BlockEnd(c.d, c.p) + 1)
        position_in_block == positionInBlock(c)
        c0 == beginEditBlock(c)
        c1 == StartOfBlock(c0, FALSE)
        c2 == Down(c1, TRUE)
        c3 == EndOfBlock(c2, TRUE)
        c4 == insertText(c3, current_down_text(next_line, current_line))
        c5 == restore_column(c4, position_in_block)
    IN  setTextCursor(endEditBlock(c5))

\* f"{next_line_text}\n{selection_text}"
selected_down_text(next_line_text, selection_text) ==
    next_line_text \o <<LF>> \o selection_text

\* "reposition cursor & restore selection"
restore_selection_down(c, selection_length, relative_start_position, old_selection_length) ==
    LET c1 == setPosition(c, c.p - selection_length + relative_start_position, FALSE)
    IN  setPosition(c1, c1.p + old_selection_length, TRUE)

\* mutant: the missing next line is noticed only after the lines were removed
move_selected_lines_down_late_return(c) ==
    LET selection_start == selectionStart(c)
        selection_end == selectionEnd(c)
        old_selection_length == selection_end - selection_start
        c1 == setPosition(c, selection_start, FALSE)
        relative_start_position == positionInBlock(c1)
        c2 == setPosition(c1, selection_end, TRUE)
        c3 == enlarge_selection(c2)
        selection_length == selectionEnd(c3) - selectionStart(c3)
        next_valid == HasNext(c3.d, selectionEnd(c3))
        next_line_text == BlockText(c3.d, BlockEnd(c3.d, selectionEnd(c3)) + 1)
        selection_text == selectedText(c3)
        c4 == removeSelectedText(beginEditBlock(c3))
        c5 == Down(c4, TRUE)
        c6 == EndOfBlock(c5, TRUE)
        c7 == insertText(c6, selected_down_text(next_line_text, selection_text))
        c9 == restore_selection_down(c7, selection_length, relative_start_position,
                                     old_selection_length)
    IN  IF ~next_valid THEN c4 ELSE setTextCursor(endEditBlock(c9))

move_selected_lines_down(c) ==
    LET selection_start == selectionStart(c)
        selection_end == selectionEnd(c)
        old_selection_length == selection_end - selection_start
        c1 == setPosition(c, selection_start, FALSE)
        relative_start_position == positionInBlock(c1)
        c2 == setPosition(c1, selection_end, TRUE)
        c3 == enlarge_selection(c2)
        selection_length == selectionEnd(c3) - selectionStart(c3)
        next_valid == HasNext(c3.d, selectionEnd(c3))
        next_line_text == BlockText(c3.d, BlockEnd(c3.d, selectionEnd(c3)) + 1)
        selection_text == selectedText(c3)
        c4 == removeSelectedText(beginEditBlock(c3))
        c5 == Down(c4, TRUE)
        c6 == EndOfBlock(c5, TRUE)
        c7 == insertText(c6, selected_down_text(next_line_text, selection_text))
        c9 == restore_selection_down(c7, selection_length, relative_start_position,
                                     old_selection_length)
    IN  IF ~next_valid THEN c ELSE setTextCursor(endEditBlock(c9))

move_lines_down(d, a, p) ==
    LET text_cursor == textCursor(d, a, p)
    IN  IF ~HasNext(d, p) THEN text_cursor
        ELSE IF hasSelection(text_cursor) THEN move_selected_lines_down(text_cursor)
        ELSE move_current_line_down(text_cursor)

\* ------------------------------------------------------------ comment_toggle
\* MindustryLogicEditor.comment_line
\* mutant: the marker never adapts to a leading space
comment_marker_fixed(line_text) == <<HASH, SPACE>>

\* the text comment_line inserts
comment_marker(line_text) ==
    IF StartsWith(line_text, <<SPACE>>) THEN <<HASH>> ELSE <<HASH, SPACE>>

comment_line(c) ==
    LET line_text == BlockText(c.d, c.p)
        c1 == StartOfBlock(c, FALSE)
    IN  insertText(c1, comment_marker(line_text))

\* MindustryLogicEditor.remove_comment
\* mutant: two characters are removed whatever follows the marker
comment_offset_always_two(line_text) == 2

\* the number of characters remove_comment removes
comment_offset(line_text) ==
    IF StartsWith(line_text, <<HASH, SPACE>>) THEN 2 ELSE 1

remove_comment(c) ==
    LET line_text == BlockText(c.d, c.p)
        c1 == StartOfBlock(c, FALSE)
        offset == comment_offset(line_text)
    IN  removeSelectedText(NextCharacter(c1, TRUE, offset))

toggle_line_comment(c) ==
    IF StartsWith(BlockText(c.d, c.p), <<HASH>>)
    THEN remove_comment(c)
    ELSE comment_line(c)

\* mutant: only the first block of the range is looked at
is_comment_block_first_only(d, pos, last) == StartsWith(BlockText(d, pos), <<HASH>>)

\* the first loop of toggle_block_comment: every block from the one at
\* `pos` to block number `last` starts with the marker
RECURSIVE is_comment_block(_, _, _)
is_comment_block(d, pos, last) ==
    /\ StartsWith(BlockText(d, pos), <<HASH>>)
    /\ \/ ~HasNext(d, pos)
       \/ BlockNumber(d, pos) >= last
       \/ is_comment_block(d, BlockEnd(d, pos) + 1, last)

\* the second loop of toggle_block_comment; cur is current_block's position
RECURSIVE toggle_blocks(_, _, _, _)
toggle_blocks(c, cur, last, commented) ==
    IF BlockNumber(c.d, cur) > last THEN c
    ELSE LET c1 == IF commented THEN remove_comment(c) ELSE comment_line(c)
             c2 == NextBlock(c1, TRUE)
         IN  IF HasNext(c1.d, cur)
             THEN toggle_blocks(c2, BlockEnd(c1.d, cur) + 1, last, commented)
             ELSE c2

\* mutant: the range is taken from the selection's own line numbers, as
\* BaseCodeEditor.toggle_block_comment takes it, without enlarge_selection
toggle_block_comment_line_bounds(c) ==
    LET selection_start == selectionStart(c)
        selection_end == selectionEnd(c)
        end_block == BlockNumber(c.d, selection_end)
        commented == is_comment_block(c.d, selection_start, end_block)
        c2 == setPosition(beginEditBlock(c), selection_start, FALSE)
    IN  endEditBlock(toggle_blocks(c2, BlockStart(c.d, selection_start), end_block, commented))

\* MindustryLogicEditor.toggle_block_comment
toggle_block_comment(c) ==
    LET c1 == enlarge_selection(c)
        selection_start == selectionStart(c1)
        selection_end == selectionEnd(c1)
        end_block == BlockNumber(c1.d, selection_end)
        commented == is_comment_block(c1.d, selection_start, end_block)
        c2 == setPosition(beginEditBlock(c1), selection_start, FALSE)
    IN  endEditBlock(toggle_blocks(c2, BlockStart(c1.d, selection_start), end_block, commented))

is_single_line_selection(c) ==
    BlockStart(c.d, selectionStart(c)) = BlockStart(c.d, selectionEnd(c))

\* MindustryLogicEditor.comment_toggle
comment_toggle(d, a, p) ==
    LET text_cursor == textCursor(d, a, p)
    IN  IF hasSelection(text_cursor) /\ ~is_single_line_selection(text_cursor)
        THEN toggle_block_comment(text_cursor)
        ELSE toggle_line_comment(text_cursor)

\* -------------------------------------------------------------- remove_lines
\* QTextCursor.select(BlockUnderCursor): the block and the separator before it
selectBlockUnderCursor(c) ==
    LET c1 == StartOfBlock(c, FALSE)
        c2 == IF HasPrevious(c1.d, c1.p)
              THEN NextBlock(EndOfBlock(PreviousBlock(c1, FALSE), FALSE), TRUE)
              ELSE c1
    IN  EndOfBlock(c2, TRUE)

\* QTextCursor.deletePreviousChar
deletePreviousChar(c) ==
    IF hasSelection(c) THEN removeSelectedText(c)
    ELSE IF c.a < 1 THEN c
    ELSE removeSelectedText([c EXCEPT !.a = c.a - 1])

remove_current_line(c) ==
    LET has_text == Len(BlockText(c.d, c.p)) > 0
    IN  IF has_text
        THEN EndOfBlock(removeSelectedText(selectBlockUnderCursor(c)), FALSE)
        ELSE deletePreviousChar(c)

\* mutant: the selection is removed as it is
remove_selected_lines_unenlarged(c) == removeSelectedText(c)

remove_selected_lines(c) == removeSelectedText(enlarge_selection(c))

remove_lines(d, a, p) ==
    LET text_cursor == textCursor(d, a, p)
    IN  IF hasSelection(text_cursor)
        THEN remove_selected_lines(text_cursor)
        ELSE remove_current_line(text_cursor)

\* ----------------------------------------------------------- duplicate_lines
\* mutant: the copy is inserted without a separator
duplicate_selection_unseparated(c) ==
    LET selection_text == selectedText(c)
    IN  insertText(c, selection_text \o selection_text)

duplicate_selection(c) ==
    LET selection_text == selectedText(c)
    IN  insertText(c, selection_text \o <<PS>> \o selection_text)

\* mutant: only empty text is refused
is_empty_only(t) == t = <<>>

\* the texts duplicate_lines_up/down refuse to duplicate
is_terminator_or_empty(t) == t = <<>> \/ (Len(t) = 1 /\ t[1] \in {PS, LF})

\* mutant: the selection is left where the insertion put the cursor
duplicate_lines_up_unrestored(d, a, p) ==
    LET text_cursor == textCursor(d, a, p)
        c1 == enlarge_selection(text_cursor)
        c2 == duplicate_selection(c1)
    IN  IF is_terminator_or_empty(selectedText(c1)) THEN text_cursor
        ELSE setTextCursor(c2)

duplicate_lines_up(d, a, p) ==
    LET text_cursor == textCursor(d, a, p)
        c1 == enlarge_selection(text_cursor)
        selection_start == selectionStart(c1)
        selection_end == selectionEnd(c1)
        selected_text == selectedText(c1)
        c2 == duplicate_selection(c1)
        c3 == setPosition(c2, selection_start, FALSE)
        c4 == setPosition(c3, selection_end, TRUE)
    IN  IF is_terminator_or_empty(selected_text) THEN text_cursor
        ELSE setTextCursor(c4)

duplicate_lines_down(d, a, p) ==
    LET text_cursor == textCursor(d, a, p)
        c1 == enlarge_selection(text_cursor)
        selection_length == selectionEnd(c1) - selectionStart(c1)
        selected_text == selectedText(c1)
        offset == IF selected_text[Len(selected_text)] \in {PS, LF} THEN 1 ELSE 0
        c2 == duplicate_selection(c1)
        current_position == c2.p
        c3 == setPosition(c2, current_position - selection_length, FALSE)
        c4 == setPosition(c3, current_position + offset, TRUE)
    IN  IF is_terminator_or_empty(selected_text) THEN text_cursor
        ELSE setTextCursor(c4)

\* ------------------------------------------------------------- keyPressEvent
\* self.tab_width
tab_width == 4

\* " " * n
Spaces(n) == [i \in 1..n |-> SPACE]

\* mutant: a tab is always tab_width spaces
replace_tab_event_full_width(c) == Spaces(tab_width)

\* replace_tab_event: the text of the key event that takes the place of the
\* Tab key event
replace_tab_event(c) ==
    LET cursor_position == positionInBlock(c)
        tabs_to_insert == tab_width - (cursor_position % tab_width)
    IN  Spaces(tabs_to_insert)

\* keyPressEvent for Key_Tab with no modifiers: QPlainTextEdit.keyPressEvent
\* inserts the text of the event at the editor's cursor, in place of the
\* selection
keyPressEvent(d, a, p) ==
    LET c == textCursor(d, a, p)
    IN  setTextCursor(insertText(c, replace_tab_event(c)))

\* ------------------------------------------------------------- find/replace
\* QPlainTextEdit.find(search_expr): the first match at or after offset
\* `from`, or -1; a match lies within one block
find(d, from, expr) ==
    LET matches == { i \in from..(Len(d) - Len(expr)) :
                       SubSeq(d, i + 1, i + Len(expr)) = expr }
    IN  IF expr = <<>> \/ matches = {} THEN 0 - 1
        ELSE CHOOSE i \in matches : \A j \in matches : i <= j

\* MindustryLogicEditor.find_string: search from the cursor (the end of its
\* selection), then from the start of the document; the match becomes the
\* editor's selection, without a match the cursor returns to og_position
find_string(d, a, p, expr) ==
    LET og_position == p
        first == find(d, Max(a, p), expr)
        wrapped == find(d, 0, expr)
    IN  IF first >= 0 THEN [found |-> TRUE, a |-> first, p |-> first + Len(expr)]
        ELSE IF wrapped >= 0 THEN [found |-> TRUE, a |-> wrapped, p |-> wrapped + Len(expr)]
        ELSE [found |-> FALSE, a |-> og_position, p |-> og_position]

\* -------------------------------------------------------------- files, tabs
\* self.path is None
NoPath == ""

\* the files the dialogs can name: two of the same name in different
\* directories, and a third
Paths == {"a/f", "b/f", "a/g"}

\* Path.name
path_name(path) == IF path = "a/g" THEN "g" ELSE "f"

\* BaseCodeEditor.get_open_file_name
get_open_file_name(e) == IF e.path # NoPath THEN path_name(e.path) ELSE "new file"

\* MindustryLogicEditor(): no path, document not modified
NewEditor == [path |-> NoPath, modified |-> FALSE]

\* what an editor's file operation did: the editor afterwards, whether a
\* file was written and whether a file dialog was opened
Outcome(e, wrote, dialog) ==
    [path |-> e.path, modified |-> e.modified, wrote |-> wrote, dialog |-> dialog]

\* BaseCodeEditor._save_file: write_ok is whether open/write succeeded
private_save_file(e, file_path, write_ok, dialog) ==
    IF write_ok
    THEN Outcome([path |-> file_path, modified |-> FALSE], TRUE, dialog)
    ELSE Outcome(e, FALSE, dialog)

\* BaseCodeEditor.save_file_as: file_path is the dialog's answer, NoPath
\* when it was cancelled
save_file_as(e, file_path, write_ok) ==
    IF file_path # NoPath
    THEN private_save_file(e, file_path, write_ok, TRUE)
    ELSE Outcome(e, FALSE, TRUE)

\* BaseCodeEditor.save_file
editor_save_file(e, file_path, write_ok) ==
    IF e.path = NoPath
    THEN save_file_as(e, file_path, write_ok)
    ELSE private_save_file(e, e.path, write_ok, FALSE)

\* BaseCodeEditor.auto_save
auto_save(e, file_path, write_ok) ==
    IF e.path = NoPath
    THEN Outcome(e, FALSE, FALSE)
    ELSE editor_save_file(e, file_path, write_ok)

\* BaseCodeEditor.create_new_file: clear() and path = None
editor_create_new_file(e) == NewEditor

\* BaseCodeEditor.open_file: new_file is the dialog's answer, read_ok
\* whether the file could be read; setPlainText resets the modified flag
editor_open_file(e, new_file, read_ok) ==
    IF new_file # NoPath /\ read_ok
    THEN [path |-> new_file, modified |-> FALSE]
    ELSE e

\* the window w = [tabs, current, last_close, last_save]; tab index i is
\* tabs[i + 1]; last_close is what the handler closed (the modified flag of
\* the tab removed, the answer given to the confirmation and the number of
\* tabs before), last_save is what it saved
get_current_editor(w) == w.tabs[w.current + 1]

\* MainWindow.add_editor_tab: addTab and setCurrentIndex(tab_index)
add_editor_tab(w) ==
    [w EXCEPT !.tabs = Append(@, NewEditor), !.current = Len(w.tabs)]

\* MainWindow.create_new_file
create_new_file(w) ==
    LET w1 == add_editor_tab(w)
    IN  [w1 EXCEPT !.tabs[w1.current + 1] = editor_create_new_file(get_current_editor(w1))]

\* QTabWidget.removeTab: the tab to the right becomes current when the
\* current tab is removed, the one to the left when there is none
removeTab(w, i) ==
    LET n == Len(w.tabs)
    IN  [w EXCEPT !.tabs = SubSeq(w.tabs, 1, i) \o SubSeq(w.tabs, i + 2, n),
                  !.current = IF n = 1 THEN 0 - 1
                              ELSE IF i < w.current THEN w.current - 1
                              ELSE IF i = w.current THEN Min(i, n - 2)
                              ELSE w.current]

\* mutant: no new file is created when the last tab goes
close_tab_only(w, i) ==
    removeTab([w EXCEPT !.last_close = [modified |-> w.tabs[i + 1].modified,
                                        answer |-> "none", count |-> Len(w.tabs)]], i)

\* MainWindow.close_tab, also the slot of tabCloseRequested
close_tab(w, i) ==
    LET w1 == removeTab([w EXCEPT !.last_close = [modified |-> w.tabs[i + 1].modified,
                                                  answer |-> "none",
                                                  count |-> Len(w.tabs)]], i)
    IN  IF Len(w1.tabs) < 1 THEN create_new_file(w1) ELSE w1

\* MainWindow.save_file
save_file(w, file_path, write_ok) ==
    LET e == get_current_editor(w)
        r == editor_save_file(e, file_path, write_ok)
    IN  [w EXCEPT !.tabs[w.current + 1] = [path |-> r.path, modified |-> r.modified],
                  !.last_save = [op |-> "save_file", had_path |-> e.path # NoPath,
                                 was_modified |-> e.modified,
                                 wrote |-> r.wrote, dialog |-> r.dialog]]

\* MainWindow.close_current_tab: confirm_save is the answer to the
\* confirmation, asked only when the document is modified
close_current_tab(w, confirm_save, file_path, write_ok) ==
    LET current_editor == get_current_editor(w)
    IN  IF ~current_editor.modified THEN close_tab(w, w.current)
        ELSE IF confirm_save = "Cancel" THEN w
        ELSE LET w1 == IF confirm_save = "Yes" THEN save_file(w, file_path, write_ok) ELSE w
                 w2 == close_tab(w1, w1.current)
             IN  [w2 EXCEPT !.last_close.answer = confirm_save]

\* the loop of open_file over the other tabs: the first other tab that
\* holds a file of the same name, or -1
same_name_tab(w, file_name) ==
    LET others == { i \in 0..(Len(w.tabs) - 1) :
                      /\ i # w.current
                      /\ w.tabs[i + 1].path # NoPath
                      /\ get_open_file_name(w.tabs[i + 1]) = file_name }
    IN  IF others = {} THEN 0 - 1 ELSE CHOOSE i \in others : \A j \in others : i <= j

\* MainWindow.open_file
open_file(w, new_file, read_ok) ==
    LET new_tab == get_current_editor(w).path # NoPath
        w1 == IF new_tab THEN add_editor_tab(w) ELSE w
        current_editor == editor_open_file(get_current_editor(w1), new_file, read_ok)
        w2 == [w1 EXCEPT !.tabs[w1.current + 1] = current_editor]
        tab_index == same_name_tab(w2, get_open_file_name(current_editor))
        w3 == IF tab_index >= 0
              THEN [w2 EXCEPT !.tabs[tab_index + 1] = editor_create_new_file(@)]
              ELSE w2
    IN  IF current_editor.path = NoPath
        THEN IF new_tab THEN close_current_tab(w2, "Cancel", NoPath, FALSE) ELSE w2
        ELSE w3

\* MainWindow.switch_tab
switch_tab(w) == [w EXCEPT !.current = (w.current + 1) % Len(w.tabs)]

\* MainWindow.timerEvent
timerEvent(w, write_ok) ==
    LET e == get_current_editor(w)
        r == auto_save(e, NoPath, write_ok)
    IN  [w EXCEPT !.tabs[w.current + 1] = [path |-> r.path, modified |-> r.modified],
                  !.last_save = [op |-> "auto_save", had_path |-> e.path # NoPath,
                                 was_modified |-> e.modified,
                                 wrote |-> r.wrote, dialog |-> r.dialog]]

\* ---------------------------------------------------------- line number area
\* QTextBlock.userData() of a block that was never classified (None)
NoData == [set |-> FALSE, number |-> 0 - 1, is_code |-> FALSE]

\* CodeLineNumber(number, is_code)
CodeLineNumber(number, is_code) == [set |-> TRUE, number |-> number, is_code |-> is_code]

\* str.strip()
RECURSIVE lstrip(_)
lstrip(t) == IF t # <<>> /\ Head(t) = SPACE THEN lstrip(Tail(t)) ELSE t
RECURSIVE rstrip(_)
rstrip(t) == IF t # <<>> /\ t[Len(t)] = SPACE THEN rstrip(SubSeq(t, 1, Len(t) - 1)) ELSE t
strip(t) == rstrip(lstrip(t))

\* mutant: the block text is classified as it is
classify_block_unstripped(d, data, k) ==
    LET prev_valid == k > 0
        prev_block_data == data[k]
        current_block_text == Lines(d)[k + 1]
        is_code == Len(current_block_text) > 0 /\ ~StartsWith(current_block_text, <<HASH>>)
        number == IF is_code
                  THEN IF prev_valid THEN prev_block_data.number + 1 ELSE 0
                  ELSE IF prev_valid THEN prev_block_data.number ELSE 0 - 1
    IN  [data EXCEPT ![k + 1] = CodeLineNumber(number, is_code)]

\* one iteration of the loop of update_line_number_area_width on block
\* number k; data[i] is the user data of block number i - 1
classify_block(d, data, k) ==
    LET prev_valid == k > 0
        prev_block_data == data[k]
        current_block_text == strip(Lines(d)[k + 1])
        is_code == Len(current_block_text) > 0 /\ ~StartsWith(current_block_text, <<HASH>>)
        number == IF is_code
                  THEN IF prev_valid THEN prev_block_data.number + 1 ELSE 0
                  ELSE IF prev_valid THEN prev_block_data.number ELSE 0 - 1
    IN  [data EXCEPT ![k + 1] = CodeLineNumber(number, is_code)]

RECURSIVE classify_from(_, _, _)
classify_from(d, data, k) ==
    IF k >= BlockCount(d) THEN data
    ELSE classify_from(d, classify_block(d, data, k), k + 1)

\* user data of the blocks of a document no pass has visited
Unclassified(d) == [i \in 1..BlockCount(d) |-> NoData]

\* the whole pass, from the first block of a document that fits the viewport
update_line_number_area_width(d) == classify_from(d, Unclassified(d), 0)

\* ------------------------------------------------------------ state machine
\* the tab widget before MainWindow.__init__ adds a tab
NoTabs ==
    [tabs |-> <<>>, current |-> 0 - 1,
     last_close |-> [modified |-> FALSE, answer |-> "none", count |-> 0],
     last_save |-> [op |-> "none", had_path |-> FALSE, was_modified |-> FALSE,
                    wrote |-> FALSE, dialog |-> FALSE]]

\* the window w becomes the state
SetWindow(w) ==
    /\ tabs' = w.tabs
    /\ current' = w.current
    /\ last_close' = w.last_close
    /\ last_save' = w.last_save

\* the state as a window, when a handler starts: nothing closed or saved yet
Window ==
    [tabs |-> tabs, current |-> current,
     last_close |-> NoTabs.last_close, last_save |-> NoTabs.last_save]

\* MainWindow.__init__ ends with create_new_file()
InitTabs ==
    LET w == create_new_file(NoTabs)
    IN  /\ tabs = w.tabs
        /\ current = w.current
        /\ last_close = w.last_close
        /\ last_save = w.last_save

\* line texts the initial documents are built from
LineTexts ==
    { <<>>, <<"a">>, <<SPACE, "a">>, <<HASH>>, <<HASH, SPACE, "a">>, <<HASH, "a">> }

RECURSIVE Join(_)
Join(ls) ==
    IF Len(ls) = 1 THEN ls[1] ELSE ls[1] \o <<PS>> \o Join(Tail(ls))

InitDocs ==
    { d \in { Join(ls) : ls \in UNION { [1..n -> LineTexts] : n \in 1..MaxLines } } :
        Len(d) <= MaxInitLen }

Init ==
    /\ doc \in InitDocs
    /\ anchor \in 0..Len(doc)
    /\ position \in 0..Len(doc)
    /\ oor = FALSE
    /\ op = "init"
    /\ pdoc = doc
    /\ panchor = anchor
    /\ pposition = position
    /\ edit = [begun |-> 0, depth |-> 0, loose |-> 0, undo |-> 0]
    /\ text_block = BlockCount(doc)
    /\ user_data = update_line_number_area_width(doc)
    /\ search_expr = <<>>
    /\ replace_expr = <<>>
    /\ replace_count = 0
    /\ pc = "idle"
    /\ InitTabs

\* one handler call: r is the handler's text cursor when it returns
Apply(name, r) ==
    /\ doc' = r.d
    /\ anchor' = r.ea
    /\ position' = r.ep
    /\ oor' = r.oor
    /\ op' = name
    /\ pdoc' = doc
    /\ panchor' = anchor
    /\ pposition' = position
    /\ edit' = [begun |-> r.begun, depth |-> r.depth, loose |-> r.loose, undo |-> r.undo]
    /\ text_block' = BlockCount(r.d)
    /\ user_data' = update_line_number_area_width(r.d)
    /\ UNCHANGED <<replace_vars, window_vars>>

\* a handler call in a sequence of operations, while the document stays
\* within MaxDocLen
Step(name, r) == Len(r.d) <= MaxDocLen /\ Apply(name, r)

MoveLinesUp == Apply("move_lines_up", move_lines_up(doc, anchor, position))
MoveLinesDown == Apply("move_lines_down", move_lines_down(doc, anchor, position))
CommentToggle == Apply("comment_toggle", comment_toggle(doc, anchor, position))
CommentToggleStep == Step("comment_toggle", comment_toggle(doc, anchor, position))
RemoveLines == Step("remove_lines", remove_lines(doc, anchor, position))
DuplicateLinesUp == Step("duplicate_lines_up", duplicate_lines_up(doc, anchor, position))
DuplicateLinesDown == Step("duplicate_lines_down", duplicate_lines_down(doc, anchor, position))

\* every engine operation, in any order
Next ==
    \/ MoveLinesUp
    \/ MoveLinesDown
    \/ CommentToggleStep
    \/ RemoveLines
    \/ DuplicateLinesUp
    \/ DuplicateLinesDown

Spec == Init /\ [][Next]_vars

\* Alt+Up / Alt+Down only
NextMove == MoveLinesUp \/ MoveLinesDown

SpecMove == Init /\ [][NextMove]_vars

\* Ctrl+/ only
NextComment == CommentToggle

SpecComment == Init /\ [][NextComment]_vars

\* Ctrl+Shift+K, Ctrl+Shift+Up / Down: the handlers that add and remove lines
NextLines == RemoveLines \/ DuplicateLinesUp \/ DuplicateLinesDown

SpecLines == Init /\ [][NextLines]_vars

\* enlarge_selection applied to a text cursor: here (anchor, position) are
\* those of the cursor handed to the static method
EnlargeSelection ==
    LET r == enlarge_selection(textCursor(doc, anchor, position))
    IN  /\ doc' = r.d
        /\ anchor' = r.a
        /\ position' = r.p
        /\ oor' = r.oor
        /\ op' = "enlarge_selection"
        /\ pdoc' = doc
        /\ panchor' = anchor
        /\ pposition' = position
        /\ edit' = [begun |-> r.begun, depth |-> r.depth, loose |-> r.loose, undo |-> r.undo]
        /\ UNCHANGED <<text_block, user_data>>
        /\ UNCHANGED <<replace_vars, window_vars>>

NextEnlarge == EnlargeSelection

SpecEnlarge == Init /\ [][NextEnlarge]_vars

\* line texts of the documents the line number area is checked on
ClassifyLineTexts ==
    { <<>>, <<"a">>, <<HASH>>, <<SPACE>>, <<SPACE, HASH>>, <<SPACE, "a">> }

ClassifyDocs ==
    { d \in { Join(ls) : ls \in UNION { [1..n -> ClassifyLineTexts] : n \in 1..MaxLines } } :
        Len(d) <= MaxInitLen }

\* a document was loaded and the pass is about to start at the first block
InitClassify ==
    /\ doc \in ClassifyDocs
    /\ anchor = 0
    /\ position = 0
    /\ oor = FALSE
    /\ op = "init"
    /\ pdoc = doc
    /\ panchor = anchor
    /\ pposition = position
    /\ edit = [begun |-> 0, depth |-> 0, loose |-> 0, undo |-> 0]
    /\ text_block = 0
    /\ user_data = Unclassified(doc)
    /\ search_expr = <<>>
    /\ replace_expr = <<>>
    /\ replace_count = 0
    /\ pc = "idle"
    /\ InitTabs

\* one iteration of the while loop of update_line_number_area_width
ClassifyBlock ==
    /\ text_block < BlockCount(doc)
    /\ user_data' = classify_block(doc, user_data, text_block)
    /\ text_block' = text_block + 1
    /\ UNCHANGED <<doc, anchor, position, oor, op, pdoc, panchor, pposition, edit>>
    /\ UNCHANGED <<replace_vars, window_vars>>

NextClassify == ClassifyBlock

SpecClassify == InitClassify /\ [][NextClassify]_vars

\* replace_count is counted up to MaxReplaceCount, more than any initial
\* document has matches, and stays there while the loop goes on
MaxReplaceCount == MaxLines + 1

\* arguments of replace_all
SearchExprs == { <<"a">>, <<HASH>> }
ReplaceExprs == { <<>>, <<HASH>>, <<"a">> }

\* longest document replace_all is started on
MaxReplaceLen == 3

\* replace_all was called and is at the head of its while loop
InitReplace ==
    /\ doc \in { d \in InitDocs : Len(d) <= MaxReplaceLen }
    /\ anchor \in 0..Len(doc)
    /\ position = anchor
    /\ oor = FALSE
    /\ op = "replace_all"
    /\ pdoc = doc
    /\ panchor = anchor
    /\ pposition = position
    /\ edit = [begun |-> 1, depth |-> 1, loose |-> 0, undo |-> 0]
    /\ text_block = BlockCount(doc)
    /\ user_data = update_line_number_area_width(doc)
    /\ search_expr \in SearchExprs
    /\ replace_expr \in ReplaceExprs
    /\ replace_count = 0
    /\ pc = "loop"
    /\ InitTabs

\* the condition of the while loop of replace_all: find_string found a
\* match and selected it
ReplaceFind ==
    \E f \in {find_string(doc, anchor, position, search_expr)} :
        /\ pc = "loop"
        /\ f.found
        /\ pc' = "body"
        /\ anchor' = f.a
        /\ position' = f.p
        /\ UNCHANGED <<doc, oor, op, pdoc, panchor, pposition, edit, text_block, user_data,
                       search_expr, replace_expr, replace_count>>
        /\ UNCHANGED window_vars

\* the body of the while loop of replace_all
ReplaceInsert ==
    \E r \in {insertText(textCursor(doc, anchor, position), replace_expr)} :
        /\ pc = "body"
        /\ pc' = "loop"
        /\ replace_count' = Min(replace_count + 1, MaxReplaceCount)
        /\ doc' = r.d
        /\ anchor' = r.ea
        /\ position' = r.ep
        /\ UNCHANGED <<oor, op, pdoc, panchor, pposition, edit, text_block, user_data,
                       search_expr, replace_expr>>
        /\ UNCHANGED window_vars

\* find_string found nothing: the loop ends and replace_all returns
\* replace_count
ReplaceDone ==
    \E f \in {find_string(doc, anchor, position, search_expr)} :
        /\ pc = "loop"
        /\ ~f.found
        /\ pc' = "done"
        /\ anchor' = f.a
        /\ position' = f.p
        /\ edit' = [edit EXCEPT !.depth = 0, !.undo = IF replace_count > 0 THEN 1 ELSE 0]
        /\ UNCHANGED <<doc, oor, op, pdoc, panchor, pposition, text_block, user_data,
                       search_expr, replace_expr, replace_count>>
        /\ UNCHANGED window_vars

NextReplace == ReplaceFind \/ ReplaceInsert \/ ReplaceDone

\* the loop keeps running while it can
SpecReplace == InitReplace /\ [][NextReplace]_vars /\ WF_vars(NextReplace)

\* ------------------------------------------------------------------- keys
\* the Tab key is pressed, with no modifiers
KeyTab == Step("key_tab", keyPressEvent(doc, anchor, position))

NextKeys == KeyTab

SpecKeys == Init /\ [][NextKeys]_vars

\* ------------------------------------------------------------- main window
\* the tab widget holds at most MaxTabs tabs in the model
MaxTabs == 3

Answers == {"Yes", "No", "Cancel"}

InitWindow ==
    /\ doc = <<>>
    /\ anchor = 0
    /\ position = 0
    /\ oor = FALSE
    /\ op = "init"
    /\ pdoc = doc
    /\ panchor = anchor
    /\ pposition = position
    /\ edit = [begun |-> 0, depth |-> 0, loose |-> 0, undo |-> 0]
    /\ text_block = BlockCount(doc)
    /\ user_data = update_line_number_area_width(doc)
    /\ search_expr = <<>>
    /\ replace_expr = <<>>
    /\ replace_count = 0
    /\ pc = "idle"
    /\ InitTabs

WindowStep(w) == SetWindow(w) /\ UNCHANGED <<editor_vars, replace_vars>>

\* the user edits the document of the current editor
EditDocument ==
    WindowStep([Window EXCEPT !.tabs[current + 1].modified = TRUE])

\* File > New
CreateNewFile == Len(tabs) < MaxTabs /\ WindowStep(create_new_file(Window))

\* File > Open: the dialog names a file or is cancelled, the file can be
\* read or not
OpenFile ==
    \E new_file \in Paths \cup {NoPath}, read_ok \in BOOLEAN :
        /\ Len(tabs) < MaxTabs
        /\ WindowStep(open_file(Window, new_file, read_ok))

\* File > Save
SaveFile ==
    \E file_path \in Paths \cup {NoPath}, write_ok \in BOOLEAN :
        WindowStep(save_file(Window, file_path, write_ok))

\* File > Close current tab
CloseCurrentTab ==
    \E confirm_save \in Answers, file_path \in Paths \cup {NoPath}, write_ok \in BOOLEAN :
        WindowStep(close_current_tab(Window, confirm_save, file_path, write_ok))

\* the close button of tab tab_index
TabCloseRequested ==
    \E tab_index \in 0..(Len(tabs) - 1) : WindowStep(close_tab(Window, tab_index))

SwitchTab == WindowStep(switch_tab(Window))

\* the auto save timer fires
TimerEvent == \E write_ok \in BOOLEAN : WindowStep(timerEvent(Window, write_ok))

NextWindow ==
    \/ EditDocument
    \/ CreateNewFile
    \/ OpenFile
    \/ SaveFile
    \/ CloseCurrentTab
    \/ TabCloseRequested
    \/ SwitchTab
    \/ TimerEvent

SpecWindow == InitWindow /\ [][NextWindow]_vars

TypeOK ==
    /\ anchor \in 0..Len(doc)
    /\ position \in 0..Len(doc)
    /\ op \in {"init", "replace_all"} \/ Len(doc) <= MaxDocLen

\* ================================================================== claims
\* The last operation took the editor from (pdoc, panchor, pposition) to
\* (doc, anchor, position).  Lines are numbered from 1 below.
PLines == Lines(pdoc)
NLines == Lines(doc)
PStart == Min(panchor, pposition)
PEnd == Max(panchor, pposition)
PCaret == panchor = pposition
NStart == Min(anchor, position)
NEnd == Max(anchor, position)
LineOf(d, pos) == BlockNumber(d, pos) + 1
ColumnOf(d, pos) == pos - BlockStart(d, pos)

\* first and last line covered by the input selection enlarged to whole
\* lines: a selection that ends at column 0 does not cover that line
FirstLine == LineOf(pdoc, PStart)
LastLine ==
    IF ~PCaret /\ ColumnOf(pdoc, PEnd) = 0
    THEN LineOf(pdoc, PEnd) - 1
    ELSE LineOf(pdoc, PEnd)

\* the last operation was a move that was not a boundary no-op
MovedUp == op = "move_lines_up" /\ FirstLine > 1
MovedDown == op = "move_lines_down" /\ HasNext(pdoc, pposition) /\ LastLine < Len(PLines)

\* the input's lines with the run FirstLine..LastLine and its neighbour exchanged
SwappedUp ==
    SubSeq(PLines, 1, FirstLine - 2) \o SubSeq(PLines, FirstLine, LastLine)
        \o <<PLines[FirstLine - 1]>> \o SubSeq(PLines, LastLine + 1, Len(PLines))
SwappedDown ==
    SubSeq(PLines, 1, FirstLine - 1) \o <<PLines[LastLine + 1]>>
        \o SubSeq(PLines, FirstLine, LastLine) \o SubSeq(PLines, LastLine + 2, Len(PLines))

MovedSelection == ~PCaret /\ (MovedUp \/ MovedDown)

\* offset at which the moved run starts after the move
MovedRunStart ==
    IF op = "move_lines_up"
    THEN BlockStart(pdoc, PStart) - Len(PLines[FirstLine - 1]) - 1
    ELSE BlockStart(pdoc, PStart) + Len(PLines[LastLine + 1]) + 1

\* C2: after a move of a selection that is not a boundary no-op, the new
\* selection starts at the moved run's new start plus the column the
\* selection start had in its line, has the selection's length, and so
\* selects the same text as before.
C2_SelectionFollowsMovedText ==
    MovedSelection =>
        /\ NStart = MovedRunStart + ColumnOf(pdoc, PStart)
        /\ NEnd - NStart = PEnd - PStart
        /\ SubSeq(doc, NStart + 1, NEnd) = SubSeq(pdoc, PStart + 1, PEnd)

\* length of the input selection once enlarged to whole lines
EnlargedLength ==
    (IF ColumnOf(pdoc, PEnd) = 0 THEN PEnd - 1 ELSE BlockEnd(pdoc, PEnd))
        - BlockStart(pdoc, PStart)

EndsAtStartOfLastLine == ColumnOf(pdoc, PEnd) = 0 /\ ~HasNext(pdoc, PEnd)

C4_AssignedOffsetsInDocument ==
    /\ ~oor
    /\ 0 <= NStart
    /\ NEnd <= Len(doc)

Unchanged == doc = pdoc /\ anchor = panchor /\ position = pposition /\ ~oor

\* C5: move_lines_up with the caret or any selected line on the first line,
\* and move_lines_down with the caret line or the last line of the enlarged
\* selection on the last line, leave document and selection unchanged.
C5_BoundaryMoveIsNoOp ==
    /\ op = "move_lines_up" /\ FirstLine = 1 => Unchanged
    /\ op = "move_lines_down" /\ LastLine = Len(PLines) => Unchanged

C5_Witness ==
    /\ op = "move_lines_down"
    /\ LastLine = Len(PLines)
    /\ panchor > pposition
    /\ HasNext(pdoc, pposition)
    /\ Unchanged

\* C6: a move of a caret at column c of line i that is not a boundary no-op
\* leaves a caret at column c of line i-1 (up) or i+1 (down), on the text of
\* the moved line.
C6_CaretStaysOnMovedLine ==
    PCaret /\ (MovedUp \/ MovedDown) =>
        /\ anchor = position
        /\ LineOf(doc, position) = FirstLine + (IF op = "move_lines_up" THEN -1 ELSE 1)
        /\ ColumnOf(doc, position) = ColumnOf(pdoc, pposition)
        /\ BlockText(doc, position) = BlockText(pdoc, pposition)

C6_Witness ==
    /\ PCaret
    /\ MovedUp
    /\ ColumnOf(pdoc, pposition) > 0
    /\ LineOf(doc, position) = FirstLine - 1
    /\ doc # pdoc

\* the marker rules of the comment toggle, as the specification words them
Commented(t) == IF StartsWith(t, <<SPACE>>) THEN <<HASH>> \o t ELSE <<HASH, SPACE>> \o t
Uncommented(t) ==
    IF StartsWith(t, <<HASH, SPACE>>) THEN SubSeq(t, 3, Len(t)) ELSE SubSeq(t, 2, Len(t))

\* the last operation was a comment toggle in block mode / in line mode
BlockMode ==
    op = "comment_toggle" /\ ~PCaret /\ LineOf(pdoc, PStart) # LineOf(pdoc, PEnd)
LineMode ==
    op = "comment_toggle" /\ LineOf(pdoc, PStart) = LineOf(pdoc, PEnd)

ToggledRange == FirstLine..LastLine
AllCommented == \A i \in ToggledRange : StartsWith(PLines[i], <<HASH>>)
Mixed ==
    /\ \E i \in ToggledRange : StartsWith(PLines[i], <<HASH>>)
    /\ \E i \in ToggledRange : ~StartsWith(PLines[i], <<HASH>>)

\* C7: in block mode the marker is removed from every line of the range iff
\* every line of the range (blank lines included) starts with '#'; otherwise
\* the marker is inserted at the start of every line of the range, commented
\* and blank lines included.  Lines outside the range are untouched.
C7_BlockToggleIsAllOrNothing ==
    BlockMode =>
        /\ Len(NLines) = Len(PLines)
        /\ \A i \in 1..Len(PLines) :
               NLines[i] = IF i \notin ToggledRange THEN PLines[i]
                           ELSE IF AllCommented THEN Uncommented(PLines[i])
                           ELSE Commented(PLines[i])

C7_Witness ==
    /\ BlockMode
    /\ Mixed
    /\ LastLine >= FirstLine + 2
    /\ \A i \in ToggledRange : NLines[i] = Commented(PLines[i])

\* C8: one toggle of a mixed block leaves every line of the range starting
\* with '#', and a second toggle restores the text of every line exactly.
C8_MixedBlockRoundTrip ==
    BlockMode /\ Mixed =>
        /\ \A i \in ToggledRange : StartsWith(NLines[i], <<HASH>>)
        /\ Lines(comment_toggle(doc, anchor, position).d) = PLines

\* C9: toggling twice with the caret on a line that does not start with '#'
\* restores the document exactly.
C9_LineToggleRoundTrip ==
    op = "comment_toggle" /\ PCaret /\ ~StartsWith(BlockText(pdoc, pposition), <<HASH>>) =>
        comment_toggle(doc, anchor, position).d = pdoc

\* the new text of the caret line in line mode
ToggledLine(t) ==
    IF StartsWith(t, <<HASH, SPACE>>) THEN SubSeq(t, 3, Len(t))
    ELSE IF StartsWith(t, <<HASH>>) THEN SubSeq(t, 2, Len(t))
    ELSE IF StartsWith(t, <<SPACE>>) THEN <<HASH>> \o t
    ELSE <<HASH, SPACE>> \o t

\* C10: with a caret or a selection within one line, the toggle changes only
\* the caret's line: leading '# ' removed, else leading '#' removed, else
\* '#' put before a leading space, else '# ' put in front.
C10_LineToggleText ==
    LineMode =>
        /\ Len(NLines) = Len(PLines)
        /\ \A i \in 1..Len(PLines) :
               NLines[i] = IF i = LineOf(pdoc, pposition) THEN ToggledLine(PLines[i])
                           ELSE PLines[i]

C10_Witness ==
    /\ LineMode
    /\ ~PCaret
    /\ StartsWith(BlockText(pdoc, pposition), <<SPACE>>)
    /\ Len(PLines) > 1
    /\ BlockText(doc, position) = <<HASH>> \o BlockText(pdoc, pposition)

\* lines whose text the last operation changed
ChangedLines == { i \in 1..Min(Len(PLines), Len(NLines)) : NLines[i] # PLines[i] }

\* C11 as stated: in block mode exactly the lines from the line of the
\* selection start through the line of the selection end are toggled, also
\* when the selection ends at column 0; in line mode only the caret line is.
C11_RangeByLineNumbers ==
    /\ BlockMode => ChangedLines = LineOf(pdoc, PStart)..LineOf(pdoc, PEnd)
    /\ LineMode => ChangedLines = {LineOf(pdoc, pposition)}

\* C11 as amended: in block mode exactly the lines of the selection enlarged
\* to whole lines are toggled, so the line on which the selection ends at
\* column 0 is left alone; in line mode only the caret line is toggled.
C11_RangeByEnlargedSelection ==
    /\ BlockMode => ChangedLines = ToggledRange
    /\ LineMode => ChangedLines = {LineOf(pdoc, pposition)}

C11_Witness ==
    /\ BlockMode
    /\ ColumnOf(pdoc, PEnd) = 0
    /\ LastLine > FirstLine
    /\ ChangedLines = ToggledRange
    /\ NLines[LineOf(pdoc, PEnd)] = PLines[LineOf(pdoc, PEnd)]

\* start offset and end offset (before its terminator) of line i, counted
\* over the line texts
LineStart(d, i) == IF i = 1 THEN 0 ELSE Len(Join(SubSeq(Lines(d), 1, i - 1))) + 1
LineEnd(d, i) == LineStart(d, i) + Len(Lines(d)[i])

\* C12: enlarge_selection leaves the document alone and turns (start, end)
\* into (S, E): S is the start of the line holding start, E the end of the
\* line holding end, or the end of the line before it when start # end and
\* end is at column 0; a caret gives its whole line; it returns E - S.
C12_EnlargeToWholeLines ==
    op = "enlarge_selection" =>
        /\ doc = pdoc
        /\ ~oor
        /\ anchor = LineStart(pdoc, FirstLine)
        /\ position = LineEnd(pdoc, LastLine)
        /\ enlarged_length(textCursor(pdoc, panchor, pposition))
               = LineEnd(pdoc, LastLine) - LineStart(pdoc, FirstLine)

C12_Witness ==
    /\ op = "enlarge_selection"
    /\ ~PCaret
    /\ ColumnOf(pdoc, PStart) > 0
    /\ ColumnOf(pdoc, PEnd) = 0
    /\ LineOf(pdoc, PEnd) > FirstLine + 1
    /\ position = PEnd - 1
    /\ anchor < PStart

\* the lines covered by the input selection enlarged to whole lines, their
\* number and their text
Covered == SubSeq(PLines, FirstLine, LastLine)
CoveredCount == LastLine - FirstLine + 1
CoveredText == Join(Covered)
Duplicable == CoveredText # <<>> /\ CoveredText # <<PS>>

\* the document after a duplication: the covered lines twice in a row
Duplicated ==
    SubSeq(PLines, 1, LastLine) \o Covered \o SubSeq(PLines, LastLine + 1, Len(PLines))

\* first and last line covered by the resulting selection, by the same rule
NFirstLine == LineOf(doc, NStart)
NLastLine ==
    IF anchor # position /\ ColumnOf(doc, NEnd) = 0
    THEN LineOf(doc, NEnd) - 1
    ELSE LineOf(doc, NEnd)

\* C13: duplicate_lines_down on covered text that is neither empty nor a
\* lone terminator leaves the covered lines twice in a row, every other line
\* unchanged and in order, CoveredCount more lines, and a selection that
\* starts at the start of the lower copy and covers exactly its lines.
C13_DuplicateDown ==
    op = "duplicate_lines_down" /\ Duplicable =>
        /\ NLines = Duplicated
        /\ Len(NLines) = Len(PLines) + CoveredCount
        /\ NStart = LineStart(doc, LastLine + 1)
        /\ NEnd >= LineEnd(doc, LastLine + CoveredCount)
        /\ NFirstLine = LastLine + 1
        /\ NLastLine = LastLine + CoveredCount
        /\ SubSeq(doc, NStart + 1, NStart + Len(CoveredText)) = CoveredText

C13_Witness ==
    /\ op = "duplicate_lines_down"
    /\ Duplicable
    /\ CoveredCount = 2
    /\ PLines[LastLine] = <<>>
    /\ NLines = Duplicated
    /\ NEnd = LineEnd(doc, LastLine + CoveredCount) + 1

\* after duplicate_lines_up: the document duplicate_lines_down gives for the
\* same input, and the selection enlarged to whole lines at its old offsets,
\* over the upper copy
DuplicatedUp ==
    /\ doc = duplicate_lines_down(pdoc, panchor, pposition).d
    /\ anchor = LineStart(pdoc, FirstLine)
    /\ position = LineEnd(pdoc, LastLine)
    /\ SubSeq(doc, 1, position) = SubSeq(pdoc, 1, position)

\* C14 as stated: DuplicatedUp holds after duplicate_lines_up whenever the
\* covered text is not empty.
C14_DuplicateUpNotEmpty ==
    op = "duplicate_lines_up" /\ CoveredText # <<>> => DuplicatedUp

\* C14 as amended: DuplicatedUp holds after duplicate_lines_up whenever the
\* covered text is neither empty nor a lone terminator, and then the
\* document is the covered lines twice in a row.
C14_DuplicateUp ==
    op = "duplicate_lines_up" /\ Duplicable => DuplicatedUp /\ NLines = Duplicated

C14_Witness ==
    /\ op = "duplicate_lines_up"
    /\ Duplicable
    /\ CoveredCount = 2
    /\ panchor > pposition
    /\ ColumnOf(pdoc, PStart) > 0
    /\ DuplicatedUp
    /\ doc # pdoc

\* C15: duplicate_lines_up and duplicate_lines_down leave the document and
\* the editor's selection exactly as they were when the covered text is
\* empty (caret on an empty line) or a lone line terminator.
C15_NothingToDuplicate ==
    op \in {"duplicate_lines_up", "duplicate_lines_down"} /\ ~Duplicable => Unchanged

C15_Witness ==
    /\ op = "duplicate_lines_down"
    /\ CoveredText = <<PS>>
    /\ panchor > pposition
    /\ Len(PLines) = 3
    /\ Unchanged

\* C16: remove_lines called right after a duplicate_lines_down that was not
\* a no-op, on the selection it left, gives a document with as many lines as
\* the document before the duplication.
C16_RemoveAfterDuplicateKeepsLineCount ==
    op = "duplicate_lines_down" /\ Duplicable =>
        Len(Lines(remove_lines(doc, anchor, position).d)) = Len(PLines)

\* the input's lines without the covered ones
WithoutCovered == SubSeq(PLines, 1, FirstLine - 1) \o SubSeq(PLines, LastLine + 1, Len(PLines))

\* C17: remove_lines with a selection in a document that has more lines than
\* the covered ones removes the covered lines with their terminators: the
\* line count drops by CoveredCount and the other lines keep text and order.
C17_RemoveSelectedLines ==
    op = "remove_lines" /\ ~PCaret /\ Len(PLines) > CoveredCount =>
        /\ Len(NLines) = Len(PLines) - CoveredCount
        /\ NLines = WithoutCovered

\* C18: remove_lines with a caret on a non-empty line of a document of at
\* least two lines removes that line, first line included: one line fewer,
\* the other lines keep text and order, and the caret ends at the end of the
\* line that followed the removed one.
C18_RemoveCurrentLine ==
    op = "remove_lines" /\ PCaret /\ Covered # << <<>> >> /\ Len(PLines) >= 2 =>
        /\ Len(NLines) = Len(PLines) - 1
        /\ NLines = WithoutCovered
        /\ anchor = position
        /\ FirstLine < Len(PLines) => position = LineEnd(doc, FirstLine)

Moves == {"move_lines_up", "move_lines_down"}
Duplications == {"duplicate_lines_up", "duplicate_lines_down"}

\* the last handler changed the document inside one edit group only: one
\* beginEditBlock, closed again, no change outside it, one undo step
OneEditGroup == edit.begun = 1 /\ edit.depth = 0 /\ edit.loose = 0 /\ edit.undo = 1

\* C19: a move that is not a boundary no-op and a block comment toggle make
\* their changes inside exactly one edit group that is closed when the
\* handler returns; a boundary move returns before a group is opened; no
\* handler leaves a group open; a duplication is a single undo step.
C19_EditGroups ==
    /\ edit.depth = 0
    /\ MovedUp \/ MovedDown => OneEditGroup
    /\ op \in Moves /\ ~(MovedUp \/ MovedDown) => edit.begun = 0 /\ edit.undo = 0
    /\ BlockMode => OneEditGroup
    /\ op \in Duplications /\ Duplicable => edit.undo = 1

C19_Witness ==
    /\ MovedDown
    /\ PCaret
    /\ OneEditGroup
    /\ pdoc # doc
    /\ Len(PLines) = 3

\* the last operation was a remove_lines whose caret line or enlarged
\* selection covered every line of the document
RemovedAllLines == op = "remove_lines" /\ CoveredCount = Len(PLines)

\* C20: the document always has at least one line, and remove_lines on the
\* only line, or on a selection that covers all lines, leaves exactly one
\* empty line.
C20_NeverWithoutALine ==
    /\ BlockCount(doc) >= 1
    /\ RemovedAllLines => doc = <<>> /\ NLines = << <<>> >> /\ anchor = 0 /\ position = 0

C20_Witness ==
    /\ RemovedAllLines
    /\ Len(PLines) = 3
    /\ ColumnOf(pdoc, PStart) > 0
    /\ pdoc # <<PS, PS>>
    /\ doc = <<>>

\* the first character of t that is not a space exists and is not '#'
IsCodeLine(t) ==
    \E i \in 1..Len(t) :
        /\ t[i] \notin {SPACE, HASH}
        /\ \A j \in 1..(i - 1) : t[j] = SPACE

\* number of code lines among the first k lines
CodeLinesUpTo(k) == Cardinality({ j \in 1..k : IsCodeLine(NLines[j]) })

\* C21: in a pass from the first line, every line k visited so far has
\* is_code iff its stripped text is not empty and does not start with '#',
\* and number = (code lines among lines up to k) - 1: -1 before the first
\* code line, one more at every code line, carried forward otherwise.
C21_LineClassification ==
    \A k \in 1..text_block :
        /\ user_data[k].set
        /\ user_data[k].is_code <=> IsCodeLine(NLines[k])
        /\ user_data[k].number = CodeLinesUpTo(k) - 1
        /\ user_data[k].number =
               (IF k = 1 THEN 0 - 1 ELSE user_data[k - 1].number)
                   + (IF user_data[k].is_code THEN 1 ELSE 0)

C21_Witness ==
    /\ text_block = 3
    /\ BlockCount(doc) = 3
    /\ NLines[1] = <<SPACE, HASH>>
    /\ ~user_data[1].is_code
    /\ user_data[1].number = 0 - 1
    /\ user_data[2].is_code
    /\ NLines[3] = <<SPACE>>
    /\ user_data[3].number = 0

\* C22: a move gives the same document, and the same decision whether to
\* move at all, for the selection (anchor, position) and for the selection
\* (position, anchor) of the opposite direction.
C22_DirectionSymmetry ==
    /\ op = "move_lines_down" =>
           LET r == move_lines_down(pdoc, pposition, panchor)
           IN  r.d = doc /\ r.begun = edit.begun
    /\ op = "move_lines_up" =>
           LET r == move_lines_up(pdoc, pposition, panchor)
           IN  r.d = doc /\ r.begun = edit.begun

\* C23: enlarge_selection applied to the selection it produced gives the
\* same (start, end) again.
C23_EnlargeIdempotent ==
    op = "enlarge_selection" =>
        LET r == enlarge_selection(textCursor(doc, anchor, position))
        IN  selectionStart(r) = NStart /\ selectionEnd(r) = NEnd

\* r restores the document and the selection offsets (start, end) the
\* editor had before the last operation
Restores(r) ==
    /\ r.d = pdoc
    /\ Min(r.ea, r.ep) = PStart
    /\ Max(r.ea, r.ep) = PEnd

\* C24: after a move up that is not a boundary no-op, a move down restores
\* the document and the selection offsets (for a caret: line and column);
\* likewise a move up after a move down.
C24_MoveRoundTrip ==
    /\ MovedUp => Restores(move_lines_down(doc, anchor, position))
    /\ MovedDown => Restores(move_lines_up(doc, anchor, position))

\* the lines the last comment toggle worked on
AffectedRange == IF BlockMode THEN ToggledRange ELSE {LineOf(pdoc, pposition)}

\* text u is text t with '#' or '# ' put in front
MarkerAdded(t, u) == u = <<HASH>> \o t \/ u = <<HASH, SPACE>> \o t

\* C25: a comment toggle keeps the number of lines (no terminator is ever
\* removed), leaves every line outside the affected range identical, and
\* changes an affected line only by '#' or '# ' inserted or deleted at
\* column 0.
C25_ToggleFrame ==
    op = "comment_toggle" =>
        /\ Len(NLines) = Len(PLines)
        /\ Cardinality({ i \in 1..Len(doc) : doc[i] = PS })
               = Cardinality({ i \in 1..Len(pdoc) : pdoc[i] = PS })
        /\ \A i \in 1..Len(PLines) :
               IF i \in AffectedRange
               THEN MarkerAdded(PLines[i], NLines[i]) \/ MarkerAdded(NLines[i], PLines[i])
               ELSE NLines[i] = PLines[i]

C25_Witness ==
    /\ BlockMode
    /\ AllCommented
    /\ PLines[FirstLine] = <<HASH>>
    /\ LastLine > FirstLine
    /\ NLines[FirstLine] = <<>>
    /\ Len(NLines) = Len(PLines)

\* C26: replace_all terminates, whatever the document, the search
\* expression and the replacement are.
C26_ReplaceAllTerminates == <>(pc = "done")

\* C27: a tab whose document is modified when the tab is removed (nothing
\* was saved successfully) is removed only after the user answered No to the
\* save confirmation
C27_ModifiedTabNeverLost ==
    (last_close.count > 0 /\ last_close.modified) => last_close.answer = "No"

\* C28: the tab widget always holds at least one tab and the current index
\* is the index of one of them
C28_AlwaysATab == Len(tabs) >= 1 /\ current \in 0..(Len(tabs) - 1)

\* the only tab was closed and a new file took its place
C28_Witness ==
    /\ last_close.count = 1
    /\ last_close.modified
    /\ tabs = <<NewEditor>>
    /\ current = 0

\* C29: auto_save writes the file only when a path is set and the document
\* is modified, and opens no dialog when no path is set
C29_AutoSaveOnlyModified ==
    last_save.op = "auto_save" =>
        /\ last_save.wrote => (last_save.had_path /\ last_save.was_modified)
        /\ ~last_save.had_path => ~last_save.dialog

\* C30: Tab pressed at column c puts n = tab_width - (c mod tab_width)
\* spaces, and nothing else, in place of the selection; 1 <= n <= tab_width
\* and c + n is the first multiple of tab_width after c
C30_TabToSpaces ==
    op = "key_tab" =>
        LET c == pposition - BlockStart(pdoc, pposition)
            n == Len(doc) - (Len(pdoc) - (Max(panchor, pposition) - Min(panchor, pposition)))
            from == Min(panchor, pposition)
        IN  /\ n = tab_width - (c % tab_width)
            /\ n >= 1 /\ n <= tab_width
            /\ (c + n) % tab_width = 0
            /\ \A m \in (c + 1)..(c + n - 1) : m % tab_width # 0
            /\ SubSeq(doc, 1, from) = SubSeq(pdoc, 1, from)
            /\ \A i \in (from + 1)..(from + n) : doc[i] = SPACE
            /\ SubSeq(doc, from + n + 1, Len(doc))
                 = SubSeq(pdoc, Max(panchor, pposition) + 1, Len(pdoc))
            /\ anchor = from + n /\ position = from + n

\* Tab was pressed off a tab stop, and fewer than tab_width spaces went in
C30_Witness ==
    /\ op = "key_tab"
    /\ (pposition - BlockStart(pdoc, pposition)) % tab_width = 1
    /\ panchor = pposition
    /\ Len(doc) = Len(pdoc) + 3

====
